---- MODULE Spec2Model ----
(***************************************************************************)
(* Model of the two command-line scripts of pulser-stand-alone:            *)
(* producer.py (publish operator lines to a topic) and consumer.py (poll,  *)
(* print and acknowledge messages).  One behaviour of the model is one run *)
(* of one of the two scripts; `role' says which.                           *)
(*                                                                         *)
(* Text is modelled as a sequence of one-character strings, bytes as a     *)
(* sequence of integers 0..255.  The broker client library is external:    *)
(* every call into it returns or raises nondeterministically.  Console     *)
(* output is assumed not to fail.  KeyboardInterrupt is asynchronous and   *)
(* may be raised at every program position of the model.                   *)
(***************************************************************************)
EXTENDS Integers, Sequences, FiniteSets, TLC

VARIABLES
    role,                \* "producer" | "consumer": which script runs
    pc,                  \* program position
    message_count,       \* the loop's local counter
    user_message,        \* producer: the stripped operator line
    timestamped_message, \* producer: text about to be sent
    msg,                 \* consumer: the message being processed
    client,              \* "none" | "open" | "closed"
    handle,              \* "none" | "open" | "closed"
    now,                 \* wall clock, seconds since 2024-01-01 00:00:00 local
    calls,               \* history of library calls and console reports
    interrupts,          \* number of KeyboardInterrupts raised so far
    pending,             \* TRUE while a KeyboardInterrupt unwinds through main's finally
    exit_status          \* -1 while running, else the process exit status

vars == <<role, pc, message_count, user_message, timestamped_message, msg,
          client, handle, now, calls, interrupts, pending, exit_status>>

(***************************************************************************)
(* Bounds of the model.                                                    *)
(***************************************************************************)
MaxLines == 2        \* operator lines read by the producer
MaxPolls == 5        \* receive calls issued by the consumer
MaxMsgs == 1         \* messages the broker delivers
MaxErrors == 1       \* non-timeout receive errors
MaxInterrupts == 2   \* KeyboardInterrupts per run
StartClock == 35995  \* 09:59:55, the wall clock when the run starts

\* seconds the operator may take to enter a line
Delays == {0, 1}

(***************************************************************************)
(* Text and bytes.                                                         *)
(***************************************************************************)
\* (character, code point) of every character the model uses; all are ASCII,
\* where str.encode('utf-8') yields the code point as one byte.
AsciiTable ==
    { <<"\t", 9>>, <<"\n", 10>>, <<" ", 32>>, <<"-", 45>>, <<":", 58>>,
      <<"0", 48>>, <<"1", 49>>, <<"2", 50>>, <<"3", 51>>, <<"4", 52>>,
      <<"5", 53>>, <<"6", 54>>, <<"7", 55>>, <<"8", 56>>, <<"9", 57>>,
      <<"E", 69>>, <<"I", 73>>, <<"T", 84>>, <<"X", 88>>,
      <<"e", 101>>, <<"h", 104>>, <<"i", 105>>, <<"s", 115>>,
      <<"t", 116>>, <<"x", 120>> }

Ord(c) == (CHOOSE p \in AsciiTable : p[1] = c)[2]
Chr(n) == (CHOOSE p \in AsciiTable : p[2] = n)[1]

\* str.isspace for the characters of the table
IsSpace(c) == Ord(c) \in {9, 10, 32}

\* str.strip(): drop leading and trailing whitespace
RECURSIVE LStrip(_)
LStrip(s) == IF s # <<>> /\ IsSpace(Head(s)) THEN LStrip(Tail(s)) ELSE s

RECURSIVE RStrip(_)
RStrip(s) ==
    IF s # <<>> /\ IsSpace(s[Len(s)]) THEN RStrip(SubSeq(s, 1, Len(s) - 1)) ELSE s

Strip(s) == RStrip(LStrip(s))

\* str.lower(): A..Z to a..z, everything else unchanged
LowerChar(c) == IF Ord(c) \in 65..90 THEN Chr(Ord(c) + 32) ELSE c
Lower(s) == [i \in 1..Len(s) |-> LowerChar(s[i])]

\* str.encode('utf-8') on ASCII text
Encode(s) == [i \in 1..Len(s) |-> Ord(s[i])]

\* bytes.decode('utf-8') succeeds: one-byte and two-byte forms
RECURSIVE Utf8Valid(_)
Utf8Valid(b) ==
    IF b = <<>> THEN TRUE
    ELSE IF b[1] < 128 THEN Utf8Valid(Tail(b))
    ELSE IF b[1] \in 194..223 /\ Len(b) >= 2 /\ b[2] \in 128..191
         THEN Utf8Valid(Tail(Tail(b)))
    ELSE FALSE

\* sub in s
Contains(sub, s) ==
    \E i \in 1..(Len(s) - Len(sub) + 1) : SubSeq(s, i, i + Len(sub) - 1) = sub

\* two decimal digits
D2(n) == <<Chr(48 + (n \div 10)), Chr(48 + (n % 10))>>

\* time.strftime('%Y-%m-%d %H:%M:%S') of clock value t (a day of January 2024)
Strftime(t) ==
    <<"2", "0", "2", "4", "-", "0", "1", "-">> \o D2(1 + (t \div 86400))
      \o <<" ">> \o D2((t % 86400) \div 3600)
      \o <<":">> \o D2((t % 3600) \div 60)
      \o <<":">> \o D2(t % 60)

ExitKeyword == <<"e", "x", "i", "t">>
Separator == <<" ", "-", " ">>

\* variant: text and timestamp in the wrong order
Timestamped_Swapped(um, t) == Strftime(t) \o Separator \o um

\* f"{user_message} - {time.strftime(...)}"
Timestamped(um, t) == um \o Separator \o Strftime(t)

(***************************************************************************)
(* Inputs.                                                                 *)
(***************************************************************************)
\* operator lines as input() returns them
Lines ==
    { <<>>, <<" ", "\t">>,
      ExitKeyword, <<" ", "E", "x", "I", "T", " ">>,
      <<"h", "i">>, <<" ", "h", "i", " ">>,
      <<"e", "x", "i", "t", "s">> }

\* message payloads the broker delivers: "h" U+00E9, and a byte that is not UTF-8
Payloads == { <<104, 195, 169>>, <<255>> }

\* str(e) of the exceptions the library raises.  The library's wording is not
\* part of the repository: as the loop assumes, the description of a receive
\* timeout contains the word "Timeout"; ConnectDesc stands for any other fault.
\* DecodeDesc is the description of the UnicodeDecodeError of bytes.decode.
TimeoutDesc == <<"P", "u", "l", "s", "a", "r", " ", "T", "i", "m", "e", "o", "u", "t">>
ConnectDesc == <<"C", "o", "n", "n", "e", "c", "t">>
DecodeDesc == <<"u", "t", "f", "-", "8">>
LibraryErrors == { TimeoutDesc, ConnectDesc }

(***************************************************************************)
(* History.                                                                *)
(***************************************************************************)
Ev(op, res, n, data) == [op |-> op, res |-> res, n |-> n, data |-> data]

Indices(op) == { i \in DOMAIN calls : calls[i].op = op }
Count(op) == Cardinality(Indices(op))
CountRes(op, res) ==
    Cardinality({ i \in DOMAIN calls : calls[i].op = op /\ calls[i].res = res })

NoMsg == [id |-> 0, data |-> <<>>]

Init ==
    /\ role \in {"producer", "consumer"}
    /\ pc = "read_token"
    /\ message_count = 0
    /\ user_message = <<>>
    /\ timestamped_message = <<>>
    /\ msg = NoMsg
    /\ client = "none"
    /\ handle = "none"
    /\ now = StartClock
    /\ calls = <<>>
    /\ interrupts = 0
    /\ pending = FALSE
    /\ exit_status = -1

\* variant: the process ends with status 0 whatever happened
Terminate_ExitZero(status) ==
    /\ pc' = "done"
    /\ exit_status' = 0

\* sys.exit(status), or the interpreter ending on an uncaught exception
Terminate(status) ==
    /\ pc' = "done"
    /\ exit_status' = status

(***************************************************************************)
(* Setup: read_token_from_file, create_producer / create_consumer.         *)
(***************************************************************************)
ReadToken ==
    /\ pc = "read_token"
    /\ \E res \in {"ok", "missing", "unreadable"} :
        /\ calls' = Append(calls, Ev("read_token", res, 0, <<>>))
        /\ IF res = "ok"
           THEN pc' = "connect" /\ UNCHANGED exit_status
           ELSE Terminate(1)
    /\ UNCHANGED <<role, message_count, user_message, timestamped_message, msg,
                   client, handle, now, interrupts, pending>>

Connect ==
    /\ pc = "connect"
    /\ \E res \in {"ok", "error"} :
        /\ calls' = Append(calls, Ev("connect", res, 0, <<>>))
        /\ IF res = "ok"
           THEN pc' = "create_handle" /\ client' = "open" /\ UNCHANGED exit_status
           ELSE Terminate(1) /\ UNCHANGED client
    /\ UNCHANGED <<role, message_count, user_message, timestamped_message, msg,
                   handle, now, interrupts, pending>>

LoopStart == IF role = "producer" THEN "input" ELSE "receive"

CreateHandle ==
    /\ pc = "create_handle"
    /\ \E res \in {"ok", "error"} :
        /\ calls' = Append(calls, Ev("create_handle", res, 0, <<>>))
        /\ IF res = "ok"
           THEN pc' = LoopStart /\ handle' = "open" /\ UNCHANGED exit_status
           ELSE Terminate(1) /\ UNCHANGED handle
    /\ UNCHANGED <<role, message_count, user_message, timestamped_message, msg,
                   client, now, interrupts, pending>>

(***************************************************************************)
(* Producer loop: send_messages_interactive.                               *)
(***************************************************************************)
\* variant: the keyword compared without lower()
IsExit_CaseSensitive(um) == um = ExitKeyword

\* user_message.lower() == 'exit'
IsExit(um) == Lower(um) = ExitKeyword

\* variant: the empty-line check left out
AfterLine_NoEmptyCheck(um) == IF IsExit(um) THEN "report" ELSE "send"

\* position after a line was read and stripped
AfterLine(um) ==
    IF IsExit(um) THEN "report"
    ELSE IF um = <<>> THEN "input"
    ELSE "send"

ReadLine ==
    /\ pc = "input"
    /\ Count("input") < MaxLines
    /\ \/ \E line \in Lines, d \in Delays :
            /\ now' = now + d
            /\ user_message' = Strip(line)
            /\ calls' = Append(calls, Ev("input", "line", now', line))
            /\ pc' = AfterLine(user_message')
            /\ timestamped_message' =
                 IF pc' = "send" THEN Timestamped(user_message', now')
                 ELSE timestamped_message
       \/ /\ calls' = Append(calls, Ev("input", "eof", now, <<>>))
          /\ pc' = "report"
          /\ UNCHANGED <<now, user_message, timestamped_message>>
    /\ UNCHANGED <<role, message_count, msg, client, handle, interrupts, pending,
                   exit_status>>

\* variant: a failed send resets the counter
CountAfterSend_Reset(res, c) == IF res = "ok" THEN c + 1 ELSE 0

\* variant: the increment placed before the send call
CountAfterSend_Always(res, c) == c + 1

\* message_count after producer.send returned or raised
CountAfterSend(res, c) == IF res = "ok" THEN c + 1 ELSE c

\* variant: a failed send ends the loop
AfterSend_BreakOnError(res) == IF res = "ok" THEN "input" ELSE "report"

\* position after producer.send returned, or raised and `except Exception'
\* printed the error and continued
AfterSend(res) == "input"

\* what `except Exception' prints when producer.send raised
SendHandlerEvents(res, t) ==
    IF res = "ok" THEN <<>> ELSE <<Ev("error_report", "", t, ConnectDesc)>>

Send ==
    /\ pc = "send"
    /\ \E res \in {"ok", "error"} :
        /\ calls' = Append(calls, Ev("send", res, now, Encode(timestamped_message)))
                      \o SendHandlerEvents(res, now)
        /\ message_count' = CountAfterSend(res, message_count)
        /\ pc' = AfterSend(res)
    /\ UNCHANGED <<role, user_message, timestamped_message, msg, client, handle, now,
                   interrupts, pending, exit_status>>

(***************************************************************************)
(* Consumer loop: consume_messages_continuous.                             *)
(***************************************************************************)
ReceiveTimeout == 5   \* timeout_millis=5000, in seconds
SleepSecs == 1        \* time.sleep(1)
MarkerPeriod == 30    \* int(time.time()) % 30

\* the literal of `"Timeout" in str(e)'
TimeoutWord == <<"T", "i", "m", "e", "o", "u", "t">>

IsTimeout(desc) == Contains(TimeoutWord, desc)

\* the condition under which the timeout branch prints "."
PrintsMarker(count, t) == count = 0 \/ t % MarkerPeriod = 0

\* variant: an error retries the acknowledge instead of pausing
HandlerPc_RetryAck(desc) == IF IsTimeout(desc) THEN "receive" ELSE "ack"

\* variant: every error continues at once, without the pause
HandlerPc_NoPause(desc) == "receive"

\* variant: a timeout ends the loop
HandlerPc_BreakOnTimeout(desc) == IF IsTimeout(desc) THEN "report" ELSE "sleep"

\* `except Exception as e' of the loop body: where it continues ...
HandlerPc(desc) == IF IsTimeout(desc) THEN "receive" ELSE "sleep"

\* ... and what it prints
HandlerEvents(desc, count, t) ==
    IF IsTimeout(desc)
    THEN IF PrintsMarker(count, t) THEN <<Ev("marker", "", t, <<>>)>> ELSE <<>>
    ELSE <<Ev("error_report", "", t, desc)>>

\* variant: the increment placed before the receive call
CountAfterReceive_Always(res, c) == c + 1

\* message_count after consumer.receive returned a message or raised
CountAfterReceive(res, c) == IF res = "ok" THEN c + 1 ELSE c

\* variant: a received message is never acknowledged
AfterReceive_SkipAck(data) == HandlerPc(ConnectDesc)

\* position after a message was received and counted
AfterReceive(data) == IF Utf8Valid(data) THEN "ack" ELSE HandlerPc(DecodeDesc)

Receive ==
    /\ pc = "receive"
    /\ Count("receive") < MaxPolls
    /\ \/ /\ now' = now + ReceiveTimeout
          /\ calls' = Append(calls, Ev("receive", "timeout", 0, <<>>))
                        \o HandlerEvents(TimeoutDesc, message_count, now')
          /\ pc' = HandlerPc(TimeoutDesc)
          /\ message_count' = CountAfterReceive("timeout", message_count)
          /\ UNCHANGED msg
       \/ /\ CountRes("receive", "ok") < MaxMsgs
          /\ \E data \in Payloads :
               /\ UNCHANGED now
               /\ msg' = [id |-> CountRes("receive", "ok") + 1, data |-> data]
               /\ message_count' = CountAfterReceive("ok", message_count)
               /\ pc' = AfterReceive(data)
               /\ calls' = Append(calls, Ev("receive", "ok", msg'.id, data))
                             \o (IF Utf8Valid(data) THEN <<>>
                                 ELSE HandlerEvents(DecodeDesc, message_count', now'))
       \/ /\ CountRes("receive", "error") < MaxErrors
          /\ \E desc \in LibraryErrors \ {TimeoutDesc} :
               /\ calls' = Append(calls, Ev("receive", "error", 0, desc))
                             \o HandlerEvents(desc, message_count, now)
               /\ pc' = HandlerPc(desc)
          /\ message_count' = CountAfterReceive("error", message_count)
          /\ UNCHANGED <<msg, now>>
    /\ UNCHANGED <<role, user_message, timestamped_message, client, handle,
                   interrupts, pending, exit_status>>

Acknowledge ==
    /\ pc = "ack"
    /\ \/ /\ calls' = Append(calls, Ev("acknowledge", "ok", msg.id, <<>>))
          /\ pc' = "receive"
       \/ \E desc \in LibraryErrors :
            /\ calls' = Append(calls, Ev("acknowledge", "error", msg.id, desc))
                          \o HandlerEvents(desc, message_count, now)
            /\ pc' = HandlerPc(desc)
    /\ UNCHANGED <<role, message_count, user_message, timestamped_message, msg,
                   client, handle, now, interrupts, pending, exit_status>>

Sleep ==
    /\ pc = "sleep"
    /\ now' = now + SleepSecs
    /\ calls' = Append(calls, Ev("sleep", "", now', <<>>))
    /\ pc' = "receive"
    /\ UNCHANGED <<role, message_count, user_message, timestamped_message, msg,
                   client, handle, interrupts, pending, exit_status>>

(***************************************************************************)
(* After the loop: the total, then main's except and finally.              *)
(***************************************************************************)
Report ==
    /\ pc = "report"
    /\ calls' = Append(calls, Ev("report", "", message_count, <<>>))
    /\ pc' = "close_handle"
    /\ UNCHANGED <<role, message_count, user_message, timestamped_message, msg,
                   client, handle, now, interrupts, pending, exit_status>>

\* main's `except KeyboardInterrupt': prints and falls into finally
MainExcept ==
    /\ pc = "main_except"
    /\ pc' = "close_handle"
    /\ UNCHANGED <<role, message_count, user_message, timestamped_message, msg,
                   client, handle, now, calls, interrupts, pending, exit_status>>

\* variant: the cleanup placed inside the loop, which then goes on
AfterCloseHandle_InLoop == LoopStart

\* position after the handle's close returned: the next statement of finally
AfterCloseHandle == "close_client"

\* producer.close() / consumer.close(), first statement of finally
CloseHandle ==
    /\ pc = "close_handle"
    /\ \E res \in {"ok", "error"} :
        /\ calls' = Append(calls, Ev("close_handle", res, 0, <<>>))
        /\ IF res = "ok"
           THEN pc' = AfterCloseHandle /\ handle' = "closed" /\ UNCHANGED exit_status
           ELSE Terminate(1) /\ UNCHANGED handle
    /\ UNCHANGED <<role, message_count, user_message, timestamped_message, msg,
                   client, now, interrupts, pending>>

\* variant: the interrupt handlers re-raise
StatusAfterFinally_Reraise(p) == IF interrupts > 0 THEN 130 ELSE 0

\* exit status once finally has completed
StatusAfterFinally(p) == IF p THEN 130 ELSE 0

\* client.close(), second statement of finally; then main returns
CloseClient ==
    /\ pc = "close_client"
    /\ \E res \in {"ok", "error"} :
        /\ calls' = Append(calls, Ev("close_client", res, 0, <<>>))
        /\ IF res = "ok"
           THEN client' = "closed" /\ Terminate(StatusAfterFinally(pending))
           ELSE Terminate(1) /\ UNCHANGED client
    /\ UNCHANGED <<role, message_count, user_message, timestamped_message, msg,
                   handle, now, interrupts, pending>>

(***************************************************************************)
(* KeyboardInterrupt.                                                      *)
(***************************************************************************)
SetupPcs == {"read_token", "connect", "create_handle"}
LoopPcs == {"input", "send", "receive", "ack", "sleep"}
FinallyPcs == {"close_handle", "close_client"}

LoopCalls == {"send", "receive", "acknowledge"}

\* the library call in flight at a position, "" if none
CallAt(p) ==
    CASE p = "send" -> "send"
      [] p = "receive" -> "receive"
      [] p = "ack" -> "acknowledge"
      [] p = "close_handle" -> "close_handle"
      [] p = "close_client" -> "close_client"
      [] OTHER -> ""

\* the call a KeyboardInterrupt cuts short at p, with its arguments
InterruptedCall(p) ==
    CASE p = "send" ->
           Ev("send", "interrupted", now, Encode(timestamped_message))
      [] p = "ack" -> Ev("acknowledge", "interrupted", msg.id, <<>>)
      [] OTHER -> Ev(CallAt(p), "interrupted", 0, <<>>)

\* where a KeyboardInterrupt raised at position p is caught: the loop
\* function's handler, main's handler, or nowhere
InterruptTarget(p) ==
    CASE p \in LoopPcs -> "report"
      [] p = "report" -> "main_except"
      [] p = "main_except" -> "close_handle"
      [] OTHER -> "done"

Interrupt ==
    /\ pc \notin {"done"}
    /\ interrupts < MaxInterrupts
    /\ interrupts' = interrupts + 1
    /\ \E issued \in {FALSE} \cup {CallAt(pc) \in LoopCalls} :
        calls' = calls
                  \o (IF issued
                      THEN <<InterruptedCall(pc)>> ELSE <<>>)
                  \o <<Ev("interrupt", pc, 0, <<>>)>>
    /\ pc' = InterruptTarget(pc)
    /\ pending' = (pending \/ pc = "main_except")
    \* an uncaught KeyboardInterrupt ends the interpreter with the SIGINT status
    /\ exit_status' = IF pc' = "done" THEN 130 ELSE exit_status
    /\ UNCHANGED <<role, message_count, user_message, timestamped_message, msg,
                   client, handle, now>>

Next ==
    \/ ReadToken
    \/ Connect
    \/ CreateHandle
    \/ ReadLine
    \/ Send
    \/ Receive
    \/ Acknowledge
    \/ Sleep
    \/ Report
    \/ MainExcept
    \/ CloseHandle
    \/ CloseClient
    \/ Interrupt

Spec == Init /\ [][Next]_vars

TypeOK ==
    /\ role \in {"producer", "consumer"}
    /\ pc \in SetupPcs \cup LoopPcs \cup FinallyPcs \cup {"report", "main_except", "done"}
    /\ message_count \in Nat
    /\ client \in {"none", "open", "closed"}
    /\ handle \in {"none", "open", "closed"}
    /\ exit_status \in {-1, 0, 1, 130}
    /\ (pc = "done") = (exit_status # -1)

(***************************************************************************)
(* Properties.                                                             *)
(***************************************************************************)
Last == Len(calls)

\* the interaction loop was entered
LoopEntered == handle # "none"

\* indices after i that come before the next `op' event
Before(op, i) ==
    { k \in DOMAIN calls : k > i /\ \A j \in (i + 1)..k : calls[j].op # op }

\* the first `op' event after i, as a set of zero or one index
NextOf(op, i) ==
    { j \in Indices(op) : j > i /\ \A k \in (i + 1)..(j - 1) : calls[k].op # op }

\* C1: on every exit path out of the interaction loop the handle's close is
\* called and then the session's close is called: the session's close never
\* precedes the handle's close, and when the process has ended both were called.
C1_HandleThenSession ==
    /\ \A j \in Indices("close_client") :
         \E i \in Indices("close_handle") : i < j
    /\ (pc = "done" /\ LoopEntered) =>
         (Indices("close_handle") # {} /\ Indices("close_client") # {})

\* the messages received whose processing reached the next receive call
ReceivedThenPolled ==
    { i \in Indices("receive") : calls[i].res = "ok" /\ NextOf("receive", i) # {} }

AcksFor(i) ==
    { k \in Before("receive", i) :
        calls[k].op = "acknowledge" /\ calls[k].n = calls[i].n }

TimeoutStep ==
    /\ Len(calls') > Last
    /\ calls'[Last + 1].op = "receive"
    /\ calls'[Last + 1].res = "timeout"

\* C3: an iteration whose receive call ends in a timeout leaves the
\* received-count unchanged and makes no acknowledge call: the next call the
\* loop makes is a receive.
C3_TimeoutNoCountNoAck ==
    [][TimeoutStep =>
         /\ message_count' = message_count
         /\ pc' = "receive"
         /\ \A k \in (Last + 1)..Len(calls') : calls'[k].op # "acknowledge"]_vars

\* a timeout after a message had been counted
C3_Witness ==
    /\ Last > 0
    /\ calls[Last].op \in {"receive", "marker"}
    /\ CountRes("receive", "timeout") > 0
    /\ \A i \in Indices("receive") : i < Last - 1 \/ calls[i].res = "timeout"
    /\ message_count > 0

\* the operator lines read that are neither empty nor the exit keyword
SendableLines ==
    { i \in Indices("input") :
        /\ calls[i].res = "line"
        /\ Strip(calls[i].data) # <<>>
        /\ Lower(Strip(calls[i].data)) # ExitKeyword }

\* C4 as stated: whenever the loop awaits the next line, the sent-count equals
\* the number of non-empty lines processed so far.
C4_CountIsNonEmptyLines ==
    pc = "input" => message_count = Cardinality(SendableLines)

\* the lines whose send call returned successfully
SentLines ==
    { i \in SendableLines :
        i < Last /\ calls[i + 1].op = "send" /\ calls[i + 1].res = "ok" }

\* C4 as amended: whenever the loop awaits the next line, the sent-count equals
\* the number of non-empty lines read so far whose send call returned
\* successfully; a line whose send fails is not counted.
C4_CountIsSentLines ==
    pc = "input" =>
        /\ message_count = Cardinality(SentLines)
        /\ message_count = CountRes("send", "ok")

\* one line was sent and counted, another failed and was not
C4_Witness ==
    /\ pc = "input"
    /\ message_count = 1
    /\ CountRes("send", "error") = 1

\* the send calls made for the line read at i
SendsFor(i) == { k \in Before("input", i) : calls[k].op = "send" }

\* the line at i has been dealt with: the loop went on to read again
Processed(i) == pc = "input" \/ NextOf("input", i) # {}

\* C5 as stated: every line L that is non-empty after trimming and not the
\* exit keyword causes exactly one send call, whose payload is the bytes of L
\* followed by " - " and the timestamp taken for that line.
C5_PayloadIsLine ==
    role = "producer" =>
    \A i \in SendableLines :
        Processed(i) =>
            /\ Cardinality(SendsFor(i)) = 1
            /\ \A k \in SendsFor(i) :
                 calls[k].data =
                   Encode(calls[i].data \o <<" ", "-", " ">> \o Strftime(calls[i].n))

\* C5 as amended: every such line causes at most one send call, exactly one
\* once the loop has gone on to read the next line, and the payload is the
\* bytes of the trimmed L followed by " - " and the timestamp taken for that
\* line; a failed send is not re-attempted.
C5_PayloadIsTrimmedLine ==
    role = "producer" =>
    \A i \in SendableLines :
        /\ Cardinality(SendsFor(i)) <= 1
        /\ Processed(i) => Cardinality(SendsFor(i)) = 1
        /\ \A k \in SendsFor(i) :
             /\ k = i + 1
             /\ calls[k].data =
                  Encode(Strip(calls[i].data) \o <<" ", "-", " ">>
                           \o Strftime(calls[i].n))

\* a line with surrounding whitespace was sent, a send failed, and the loop
\* read the next line after the failure
C5_Witness ==
    /\ \E i \in SendableLines :
         /\ calls[i].data # Strip(calls[i].data)
         /\ SendsFor(i) # {}
    /\ \E i \in SendableLines :
         /\ \E k \in SendsFor(i) : calls[k].res = "error"
         /\ NextOf("input", i) # {}

\* the step reads a line that is empty after trimming
EmptyLineStep ==
    /\ Len(calls') = Last + 1
    /\ calls'[Last + 1].op = "input"
    /\ calls'[Last + 1].res = "line"
    /\ Strip(calls'[Last + 1].data) = <<>>

EmptyLines ==
    { i \in Indices("input") : calls[i].res = "line" /\ Strip(calls[i].data) = <<>> }

\* C6: a line that is empty after trimming never invokes send and never
\* changes the sent-count, and the loop stays in AwaitingInput.
C6_EmptyLineDiscarded ==
    /\ [](\A i \in EmptyLines : SendsFor(i) = {})
    /\ [][EmptyLineStep => (message_count' = message_count /\ pc' = "input")]_vars

\* a whitespace-only line was just read after a message had been sent
C6_Witness ==
    /\ Last \in EmptyLines
    /\ calls[Last].data # <<>>
    /\ message_count > 0
    /\ pc = "input"

ExitLines ==
    { i \in Indices("input") :
        calls[i].res = "line" /\ Lower(Strip(calls[i].data)) = ExitKeyword }

\* C7: a line that equals 'exit' case-insensitively after trimming terminates
\* the loop; it is never passed to send and never counted.
C7_ExitTerminates ==
    role = "producer" =>
    \A i \in ExitLines :
        /\ pc \notin LoopPcs
        /\ \A k \in DOMAIN calls : k > i => calls[k].op \notin {"input", "send"}
        /\ message_count = CountRes("send", "ok")

\* the exit keyword in mixed case with surrounding blanks ended a run in which
\* one message had been sent
C7_Witness ==
    /\ \E i \in ExitLines : calls[i].data # ExitKeyword
    /\ message_count = 1
    /\ pc = "done"

\* every receive call so far ended in a timeout
OnlyTimeouts ==
    /\ Indices("receive") # {}
    /\ \A i \in Indices("receive") : calls[i].res = "timeout"

\* C8: receive timeouts never make the consumer loop leave Polling: after any
\* number of consecutive timeouts with no message the received-count is 0 and
\* the loop is about to receive again; only an interrupt ends the loop.
C8_TimeoutsKeepPolling ==
    /\ []((role = "consumer" /\ OnlyTimeouts /\ interrupts = 0) =>
            (message_count = 0 /\ pc = "receive"))
    /\ [][(role = "consumer" /\ pc \in LoopPcs /\ pc' \notin LoopPcs) =>
            interrupts' = interrupts + 1]_vars

\* five consecutive timeouts and nothing else
C8_Witness ==
    /\ OnlyTimeouts
    /\ CountRes("receive", "timeout") >= 5
    /\ pc = "receive"

SetupOps == {"read_token", "connect", "create_handle"}

SetupFailures == { i \in DOMAIN calls : calls[i].op \in SetupOps /\ calls[i].res # "ok" }

\* C9: a setup failure ends the process at once with a non-zero status, with
\* no retry and without any send, receive or acknowledge call; a missing token
\* never leads to a connection attempt.
C9_SetupFailureIsFatal ==
    /\ \A op \in SetupOps : Count(op) <= 1
    /\ \A i \in SetupFailures :
         /\ i = Last
         /\ pc = "done"
         /\ exit_status > 0
         /\ ~LoopEntered
         /\ \A k \in DOMAIN calls : calls[k].op \notin LoopCalls
         /\ calls[i].op = "read_token" => Count("connect") = 0

\* the client was constructed and creating the handle failed
C9_Witness ==
    /\ SetupFailures # {}
    /\ client = "open"
    /\ pc = "done"

\* C10 as stated: after a successful setup every operator-initiated shutdown
\* ends the process with exit status zero.
C10_ShutdownExitsZero ==
    (pc = "done" /\ LoopEntered) => exit_status = 0

\* both close calls returned and every interrupt arrived in the loop or while
\* the total was reported
CleanShutdown ==
    /\ CountRes("close_handle", "ok") = 1
    /\ CountRes("close_client", "ok") = 1
    /\ \A i \in Indices("interrupt") : calls[i].res \in LoopPcs \cup {"report"}

\* C10 as amended: after a successful setup an operator-initiated shutdown in
\* which both close calls return and no interrupt arrives once main's
\* interrupt handler or its cleanup has begun ends with exit status zero.
C10_CleanShutdownExitsZero ==
    (pc = "done" /\ CleanShutdown) => exit_status = 0

\* a run interrupted in the loop and again while reporting, closed cleanly
C10_Witness ==
    /\ pc = "done"
    /\ CleanShutdown
    /\ interrupts = 2

\* every interrupt so far arrived in the loop or while the total was reported
InterruptsInLoopOrReport ==
    \A i \in Indices("interrupt") : calls[i].res \in LoopPcs \cup {"report"}

\* C11: every client session that was constructed is closed exactly once
\* before the process ends: after normal shutdown, after an interrupt, when the
\* handle's close fails, and when creating the handle fails.
C11_SessionClosedOnce ==
    (pc = "done" /\ CountRes("connect", "ok") = 1 /\ InterruptsInLoopOrReport) =>
        Count("close_client") = 1

\* the send calls that raised
FailedSends == { k \in Indices("send") : calls[k].res = "error" }

\* the step appends a send call that raised
FailedSendStep ==
    /\ Len(calls') > Last
    /\ calls'[Last + 1].op = "send"
    /\ calls'[Last + 1].res = "error"

\* C12: a send call that fails is reported and does not end the loop: the
\* loop stays in AwaitingInput and reads the next line, with no pause and no
\* re-send of the failed message.
C12_FailedSendContinues ==
    /\ [](\A k \in FailedSends :
            /\ k < Last
            /\ calls[k + 1].op = "error_report"
            /\ \A j \in DOMAIN calls : j > k => calls[j].op # "sleep"
            /\ k + 2 <= Last => calls[k + 2].op \in {"input", "interrupt"})
    /\ [][FailedSendStep =>
            (pc' = "input" /\ now' = now /\ message_count' = message_count)]_vars

\* a send failed and the next line was read and sent
C12_Witness ==
    \E k \in FailedSends :
        /\ k + 3 <= Last
        /\ calls[k + 2].op = "input"
        /\ calls[k + 3].op = "send"
        /\ calls[k + 3].res = "ok"

\* the receive calls that raised something other than a timeout
ReceiveErrors == { k \in Indices("receive") : calls[k].res = "error" }

\* the failure at k took the generic error path: it was reported, and the next
\* thing the loop does is the pause
ReportedThenPause(k) ==
    /\ k < Last
    /\ calls[k + 1].op = "error_report"
    /\ Last = k + 1 => pc = "sleep"
    /\ k + 2 <= Last => calls[k + 2].op \in {"sleep", "interrupt"}

\* C13: every receive error that is not a timeout is reported and followed by
\* a 1-second pause before the next receive call, and the loop stays in
\* Polling: it ends only by an interrupt.
C13_ReceiveErrorPauses ==
    role = "consumer" =>
    \A k \in ReceiveErrors :
        /\ ReportedThenPause(k)
        /\ calls[k + 1].data = calls[k].data
        /\ \A j \in NextOf("receive", k) :
             /\ calls[k + 2].op = "sleep"
             /\ calls[k + 2].n = calls[k + 1].n + 1
             /\ j = k + 3
        /\ pc \notin LoopPcs => \E j \in Indices("interrupt") : j > k

\* a receive error was reported, the loop paused and polled again
C13_Witness ==
    \E k \in ReceiveErrors : NextOf("receive", k) # {} /\ message_count = 0

\* the acknowledge calls that raised, and the messages whose decoding raised
ProcessingFailures ==
    { k \in DOMAIN calls :
        \/ calls[k].op = "acknowledge" /\ calls[k].res = "error"
        \/ calls[k].op = "receive" /\ calls[k].res = "ok" /\ ~Utf8Valid(calls[k].data) }

\* C14: a failure of the acknowledge call or of processing a received message
\* always takes the generic error path (reported, 1-second pause, polling
\* resumes) and is never handled as a receive timeout.
C14_AckFailureIsGenericError ==
    role = "consumer" => \A k \in ProcessingFailures : ReportedThenPause(k)

\* C15: the liveness marker is not printed on every timeout: any two markers
\* are at least 30 seconds of wall-clock time apart.
C15_MarkerOncePerPeriod ==
    role = "consumer" =>
    \A i, j \in Indices("marker") :
        i < j => calls[j].n - calls[i].n >= MarkerPeriod

\* C16: whenever the interaction loop has ended, the total message count is
\* reported before the channel handle is closed: no close call is made without
\* the total having been reported first.
C16_ReportBeforeClose ==
    \A i \in Indices("close_handle") \cup Indices("close_client") :
        \E j \in Indices("report") : j < i

AcksOf(id) == { k \in Indices("acknowledge") : calls[k].n = id }

\* C18: in the consumer the number of acknowledge calls made never exceeds the
\* received-count, each received message is acknowledged at most once, and the
\* received-count never decreases: a message whose decoding or
\* acknowledgement failed stays counted without a successful acknowledgement.
C18_AcksWithinCount ==
    /\ [](role = "consumer" =>
            /\ Count("acknowledge") <= message_count
            /\ \A k \in Indices("acknowledge") : Cardinality(AcksOf(calls[k].n)) = 1
            /\ \A k \in ProcessingFailures :
                 /\ calls[k].n \in 1..message_count
                 /\ \A j \in AcksOf(calls[k].n) : calls[j].res # "ok")
    /\ [][role = "consumer" => message_count' >= message_count]_vars

\* a message was counted, its acknowledgement failed, and the loop went on
C18_Witness ==
    /\ role = "consumer"
    /\ message_count = 1
    /\ CountRes("acknowledge", "error") = 1
    /\ \E k \in Indices("acknowledge") : NextOf("receive", k) # {}

Closes == Indices("close_handle") \cup Indices("close_client")

\* C19: no send, receive or acknowledge call is made after the handle's close
\* was called, and no handle operation is made after the session's close.
C19_NoCallAfterClose ==
    /\ \A i \in Closes :
         \A k \in DOMAIN calls : k > i => calls[k].op \notin LoopCalls
    /\ \A i \in Indices("close_client") :
         \A k \in DOMAIN calls : k > i => calls[k].op # "close_handle"

\* a run that made loop calls and then closed the handle and the session
C19_Witness ==
    /\ pc = "done"
    /\ client = "closed"
    /\ handle = "closed"
    /\ \E k \in DOMAIN calls : calls[k].op \in LoopCalls /\ calls[k].res = "ok"

====
